---- MODULE Spec2Model ----
(***************************************************************************)
(* The comment views of django-nested-comments (comments/views.py):        *)
(* post_comment, post_comment_form and delete_comment running as           *)
(* concurrent requests against one comment tree in a transactional store.  *)
(*                                                                         *)
(* The store is read-committed: a transaction reads the committed rows and *)
(* its own uncommitted writes.  post_comment and delete_comment run inside *)
(* transaction.atomic, so their writes are buffered in the request (ins,   *)
(* nv, del) until AtomicExit commits or discards them; post_comment_form   *)
(* has no transaction, so each of its saves is committed at once.  The     *)
(* only lock requested by the views is the SELECT ... FOR UPDATE NOWAIT of *)
(* lock_comment, held until the transaction ends.                          *)
(***************************************************************************)
EXTENDS Integers, FiniteSets, Sequences, TLC

\* ---- bounds of the model ------------------------------------------------
NumProcs == 2
MaxReqs == 2
MaxNodes == 4
MaxDepth == 3

Procs == 1..NumProcs
NodeIds == 1..MaxNodes

\* ---- values ---------------------------------------------------------------
Root == 0
NoNode == -1
NoVersion == 0
Texts == {"", "a"}

VARIABLES nodes, versions, op, nreq

vars == <<nodes, versions, op, nreq>>

\* What a request still in flight remembers of the last request that ended
\* while it ran (bookkeeping of the model, not program state).
NoMate ==
  [kind |-> "none", comment |-> NoNode, prev |-> NoVersion, fresh0 |-> FALSE,
   resp |-> "none", err |-> "none", ov |-> 0, nv |-> {}]

\* The request of a worker that is not serving one.
Idle ==
  [pc |-> "idle", kind |-> "none", comment |-> NoNode,
   parent |-> NoNode, adding |-> FALSE, prev |-> NoVersion,
   locked |-> FALSE, ins |-> {}, nv |-> {}, del |-> {}, rollback |-> FALSE,
   err |-> "none", resp |-> "none", sent |-> "none", seen |-> NoVersion,
   fresh0 |-> FALSE, descAt |-> {}, base |-> 0, ov |-> 0, mate |-> NoMate,
   wasDeleted |-> FALSE, raised |-> FALSE]

InFlight(q) == op[q].pc # "idle"

\* ---- the tree -------------------------------------------------------------
RECURSIVE get_root(_)
get_root(n) == IF nodes[n].parent = NoNode THEN n ELSE get_root(nodes[n].parent)

max_depth(tree_root) == MaxDepth

get_children(n) == {c \in DOMAIN nodes : nodes[c].parent = n}

RECURSIVE Descendants(_)
Descendants(n) ==
  LET cs == get_children(n)
  IN  cs \cup UNION {Descendants(c) : c \in cs}

\* ---- the version log ------------------------------------------------------
\* Rows of CommentVersion a request can read: committed ones and its own.
Visible(p) == versions \cup op[p].nv

VersionIds(S) == {v.id : v \in S}

MaxId(S) == IF S = {} THEN NoVersion ELSE CHOOSE i \in S : \A j \in S : j <= i

\* comment.versions.latest(): the row with the greatest date_posted.
latest(p, c) == MaxId(VersionIds({v \in Visible(p) : v.comment = c}))

\* The timestamp a save gets: later than every row written so far.
NewVersionId ==
  1 + MaxId(VersionIds(versions \cup UNION {op[q].nv : q \in Procs}))

PendingNodeIds == UNION {{r.id : r \in op[q].ins} : q \in {x \in Procs : InFlight(x)}}

NewNodeId ==
  CHOOSE i \in NodeIds \ (DOMAIN nodes \cup PendingNodeIds) :
    \A j \in NodeIds \ (DOMAIN nodes \cup PendingNodeIds) : i <= j

CreatesInFlight ==
  {q \in Procs : InFlight(q) /\ op[q].adding
                 /\ (op[q].kind = "post" \/ op[q].comment = NoNode)}

HasRoom ==
  Cardinality(DOMAIN nodes \ {Root}) + Cardinality(CreatesInFlight) < MaxNodes

\* ---- helpers of views.py --------------------------------------------------
\* _get_target_comment: a version id names an existing comment and the
\* version the client saw; a parent id names a new, unsaved comment.
get_comment ==
  {[comment |-> v.comment, parent |-> nodes[v.comment].parent,
    adding |-> FALSE, prev |-> v.id] : v \in versions}
  \cup
  {[comment |-> NoNode, parent |-> n, adding |-> TRUE, prev |-> NoVersion] :
     n \in DOMAIN nodes}

is_past_max_depth_never(o) == FALSE

is_past_max_depth_gt(o) ==
  nodes[o.parent].level > max_depth(get_root(o.parent))

is_past_max_depth_own(o) ==
  IF o.adding THEN nodes[o.parent].level >= max_depth(get_root(o.parent))
  ELSE nodes[o.comment].level >= max_depth(get_root(o.parent))

is_past_max_depth(o) ==
  nodes[o.parent].level >= max_depth(get_root(o.parent))

add_comment(o) ==
  [id |-> NewNodeId, parent |-> o.parent,
   level |-> nodes[o.parent].level + 1, deleted |-> FALSE]

LockedByOther(p) ==
  \E q \in Procs \ {p} : op[q].locked /\ op[q].comment = op[p].comment

lock_comment_blocking(p) == IF LockedByOther(p) THEN "wait" ELSE "locked"

lock_comment_free(p) == "locked"

\* select_for_update(nowait=True): the row lock or DatabaseError, at once.
lock_comment(p) == IF LockedByOther(p) THEN "DatabaseError" ELSE "locked"

\* views.py imports no DatabaseError, so evaluating the except clause of
\* the lock step raises NameError instead of catching the error.
DatabaseErrorImported == FALSE

not_most_recent_version_never(p, o) == FALSE

not_most_recent_version_eq(p, o) ==
  o.prev # NoVersion /\ o.prev = latest(p, o.comment)

not_most_recent_version(p, o) ==
  o.prev # NoVersion /\ o.prev # latest(p, o.comment)

\* CommentVersionForm.is_valid
is_valid(text) == text # ""

set_rollback_noop(o) == o

set_rollback(o) == [o EXCEPT !.rollback = TRUE]

\* A JsonResponse with ok False from inside the atomic block.
Fail(o, e) == [set_rollback(o) EXCEPT !.pc = "exit", !.err = e, !.resp = "fail"]

\* An exception leaving the atomic block: the transaction is rolled back.
Raise(o, e) ==
  [o EXCEPT !.pc = "exit", !.err = e, !.resp = "exception", !.rollback = TRUE]

\* An exception leaving post_comment_form, which has no transaction.
RaiseForm(o, e) == [o EXCEPT !.pc = "end", !.err = e, !.resp = "exception"]

after_depth_check_unlocked(o) == IF o.adding THEN "add" ELSE "save"

\* What follows the depth check: add_comment for a comment not yet saved;
\* then lock_comment in post_comment, create_new_version in post_comment_form.
after_depth_check(o) ==
  IF o.adding THEN "add" ELSE IF o.kind = "form" THEN "save" ELSE "lock"

send_robust(receiver_raises) == FALSE

\* comment_changed.send: the exception of a receiver comes out of send.
send(receiver_raises) == receiver_raises

mark_deleted_toggle(row) == [row EXCEPT !.deleted = ~@]

\* comment.deleted = True; comment.save()
mark_deleted(row) == [row EXCEPT !.deleted = TRUE]

end_transaction_keeps_lock(o) == [o EXCEPT !.pc = "end"]

\* The end of the transaction, commit or rollback, gives up its row locks.
end_transaction(o) == [o EXCEPT !.pc = "end", !.locked = FALSE]

\* The tree of one parent object after load_comments has created its root
\* and post_comment has stored a comment under it and a reply to that one;
\* delete_comment has since been run on the reply.
Init ==
  /\ nodes = (Root :> [parent |-> NoNode, level |-> 0, deleted |-> FALSE])
             @@ (1 :> [parent |-> Root, level |-> 1, deleted |-> FALSE])
             @@ (2 :> [parent |-> 1, level |-> 2, deleted |-> TRUE])
  /\ versions = {[id |-> 1, comment |-> 1, text |-> "a", prev |-> NoVersion,
                  via |-> "post"],
                 [id |-> 2, comment |-> 2, text |-> "a", prev |-> NoVersion,
                  via |-> "post"]}
  /\ op = [p \in Procs |-> Idle]
  /\ nreq = 0

\* ---- bookkeeping ------------------------------------------------------------
Summary(o) ==
  [kind |-> o.kind, comment |-> o.comment, prev |-> o.prev,
   fresh0 |-> o.fresh0, resp |-> o.resp, err |-> o.err, ov |-> o.ov,
   nv |-> IF o.rollback THEN {} ELSE o.nv]

IsEdit(o) == o.kind = "post" /\ ~o.adding /\ o.comment # NoNode

\* Two requests that write versions of the same existing comment.
Interfere(a, b) ==
  /\ a.kind \in {"post", "form"} /\ ~a.adding
  /\ b.kind \in {"post", "form"} /\ ~b.adding
  /\ a.comment # NoNode /\ a.comment = b.comment

Related(a, b) == IsEdit(a) /\ IsEdit(b) /\ a.comment = b.comment

\* Worker p moves to o; a request that has ended frees its worker and is
\* noted by the requests still in flight.  A row lock that the end of the
\* request did not give up stays in the store.
Settle(p, o) ==
  [q \in Procs |->
     IF o.pc = "end"
     THEN IF q = p
          THEN [Idle EXCEPT !.locked = o.locked,
                            !.comment = IF o.locked THEN o.comment ELSE NoNode]
          ELSE IF InFlight(q) /\ Related(op[q], o)
               THEN [op[q] EXCEPT !.mate = Summary(o)]
          ELSE op[q]
     ELSE IF q = p THEN o ELSE op[q]]

\* ---- scheduling --------------------------------------------------------------
\* A step is local when it reads and writes nothing another request can see:
\* the permission hook, the depth test (levels never change), the insert of
\* post_comment (pending in its own transaction until the commit) and
\* get_template.  A local step commutes with every step of the other workers,
\* so it is taken as soon as it is enabled and only the interleavings of the
\* steps that touch the rows, the locks or the commit are explored.
Local(q) ==
  \/ op[q].pc \in {"perm", "depth", "template"}
  \/ op[q].pc = "add" /\ op[q].kind = "post"

Turn(p) == \A q \in Procs \ {p} : ~Local(q)

\* ---- steps ----------------------------------------------------------------
\* A request arrives and resolves its target (get_comment).  The workers are
\* interchangeable, so the first idle one takes it.
Arrive(p, k, o) ==
  LET mine0 == [o EXCEPT !.kind = k]
      others == {q \in Procs \ {p} : InFlight(q) /\ Interfere(op[q], mine0)}
      mine == [mine0 EXCEPT !.ov = Cardinality(others)]
      met == [q \in Procs |->
                IF q \in others THEN [op[q] EXCEPT !.ov = @ + 1] ELSE op[q]]
  IN
  /\ op[p].pc = "idle"
  /\ \A q \in Procs : q < p => InFlight(q)
  /\ Turn(p)
  /\ nreq < MaxReqs
  /\ nreq' = nreq + 1
  /\ op' = IF mine.pc = "end" THEN met ELSE [met EXCEPT ![p] = mine]
  /\ UNCHANGED <<nodes, versions>>

Resolved(t) ==
  LET mine == {v \in versions : v.comment = t.comment} IN
  [Idle EXCEPT !.pc = "perm", !.comment = t.comment, !.parent = t.parent,
               !.adding = t.adding, !.prev = t.prev,
               !.wasDeleted = (~t.adding /\ nodes[t.comment].deleted),
               !.base = IF t.adding THEN 0 ELSE Cardinality(mine),
               !.fresh0 = (t.prev # NoVersion /\ t.prev = MaxId(VersionIds(mine)))]

\* A create that will get past the depth check needs a free node id.
Admissible(t) == (t.adding /\ ~is_past_max_depth(t)) => HasRoom

GetCommentPost(p) ==
  \/ Arrive(p, "post", Raise(Idle, "InvalidTarget"))
  \/ \E t \in get_comment :
       /\ Admissible(t)
       /\ Arrive(p, "post", Resolved(t))

GetCommentForm(p) ==
  \/ Arrive(p, "form", RaiseForm(Idle, "InvalidTarget"))
  \/ \E t \in get_comment :
       /\ Admissible(t)
       /\ Arrive(p, "form", Resolved(t))

GetCommentDelete(p) ==
  \/ Arrive(p, "delete", Fail(Idle, "InvalidTarget"))
  \/ \E t \in get_comment :
       /\ ~t.adding
       /\ Arrive(p, "delete", Resolved(t))

PermissionCheck(p) ==
  LET o == op[p] IN
  /\ o.pc = "perm"
  /\ Turn(p)
  /\ \E allowed \in BOOLEAN :
       op' = Settle(p,
                IF allowed
                THEN [o EXCEPT !.pc = IF o.kind = "delete" THEN "delete" ELSE "depth"]
                ELSE IF o.kind = "form" THEN RaiseForm(o, "PermissionDenied")
                ELSE Fail(o, "PermissionDenied"))
  /\ UNCHANGED <<nodes, versions, nreq>>

DepthCheck(p) ==
  LET o == op[p] IN
  /\ o.pc = "depth"
  /\ Turn(p)
  /\ op' = Settle(p,
              IF is_past_max_depth(o)
              THEN IF o.kind = "form" THEN RaiseForm(o, "DepthExceeded")
                   ELSE Fail(o, "DepthExceeded")
              ELSE [o EXCEPT !.pc = after_depth_check(o)])
  /\ UNCHANGED <<nodes, versions, nreq>>

AddComment(p) ==
  LET o == op[p]
      n == add_comment(o)
  IN
  /\ o.pc = "add"
  /\ Turn(p)
  /\ IF o.kind = "form"
     THEN /\ nodes' = (n.id :> [parent |-> n.parent, level |-> n.level,
                                deleted |-> n.deleted]) @@ nodes
          /\ op' = Settle(p, [o EXCEPT !.pc = "save", !.comment = n.id])
     ELSE /\ nodes' = nodes
          /\ op' = Settle(p, [o EXCEPT !.pc = "lock", !.comment = n.id,
                                       !.ins = {n}])
  /\ UNCHANGED <<versions, nreq>>

LockComment(p) ==
  LET o == op[p]
      r == lock_comment(p)
  IN
  /\ o.pc \in {"lock", "wait"}
  /\ Turn(p)
  /\ op' = Settle(p,
              IF r = "locked" THEN [o EXCEPT !.pc = "fresh", !.locked = TRUE]
              ELSE IF r = "wait" THEN [o EXCEPT !.pc = "wait"]
              ELSE IF DatabaseErrorImported THEN Fail(o, "ConcurrentEditConflict")
              ELSE Raise(o, "ConcurrentEditConflict"))
  /\ UNCHANGED <<nodes, versions, nreq>>

FreshnessCheck(p) ==
  LET o == [op[p] EXCEPT !.seen = IF op[p].prev # NoVersion
                                  THEN latest(p, op[p].comment) ELSE NoVersion]
  IN
  /\ op[p].pc = "fresh"
  /\ Turn(p)
  /\ op' = Settle(p,
              IF not_most_recent_version(p, o) THEN Fail(o, "StaleEdit")
              ELSE [o EXCEPT !.pc = "save"])
  /\ UNCHANGED <<nodes, versions, nreq>>

CreateNewVersion(p) ==
  LET o == op[p] IN
  /\ o.pc = "save"
  /\ Turn(p)
  /\ \E text \in Texts :
       LET v == [id |-> NewVersionId, comment |-> o.comment, text |-> text,
                 prev |-> o.prev, via |-> o.kind]
       IN
       IF o.kind = "form"
       THEN /\ versions' = IF is_valid(text) THEN versions \cup {v} ELSE versions
            /\ op' = Settle(p,
                        [o EXCEPT !.pc = "end", !.resp = "returned",
                                  !.nv = IF is_valid(text) THEN {v} ELSE {},
                                  !.err = IF is_valid(text) THEN "none"
                                          ELSE "ValidationError"])
       ELSE /\ versions' = versions
            /\ op' = Settle(p,
                        IF is_valid(text)
                        THEN [o EXCEPT !.pc = "template", !.nv = {v}]
                        ELSE Fail(o, "ValidationError"))
  /\ UNCHANGED <<nodes, nreq>>

\* get_template and the response of post_comment.  json.loads of a missing
\* X_KWARGS header raises, and so may a receiver of comment_changed.
GetTemplate(p) ==
  LET o == op[p] IN
  /\ o.pc = "template"
  /\ Turn(p)
  /\ \E hdr \in BOOLEAN, receiver_raises \in BOOLEAN :
       LET s == [o EXCEPT !.sent = IF o.prev # NoVersion THEN "edit" ELSE "post",
                          !.raised = receiver_raises]
       IN
       op' = Settle(p,
                IF ~hdr THEN Raise(o, "Unhandled")
                ELSE IF send(receiver_raises) THEN Raise(s, "Unhandled")
                ELSE [s EXCEPT !.pc = "exit", !.resp = "ok"])
  /\ UNCHANGED <<nodes, versions, nreq>>

\* The try block of delete_comment.
DeleteMark(p) ==
  LET o == op[p] IN
  /\ o.pc = "delete"
  /\ Turn(p)
  /\ \E hdr \in BOOLEAN, receiver_raises \in BOOLEAN :
       LET s == [o EXCEPT !.sent = "pre_delete", !.raised = receiver_raises] IN
       op' = Settle(p,
                IF ~hdr THEN Fail(o, "StorageFailure")
                ELSE IF send(receiver_raises) THEN Fail(s, "StorageFailure")
                ELSE [s EXCEPT !.pc = "exit", !.resp = "ok",
                               !.del = {o.comment} \cup get_children(o.comment),
                               !.descAt = Descendants(o.comment)])
  /\ UNCHANGED <<nodes, versions, nreq>>

\* transaction.atomic on the way out: commit, or roll back when the block
\* raised or set_rollback(True) was called.  The row lock ends with it.
AtomicExit(p) ==
  LET o == op[p]
      new == {r.id : r \in o.ins}
  IN
  /\ o.pc = "exit"
  /\ Turn(p)
  /\ IF o.rollback
     THEN UNCHANGED <<nodes, versions>>
     ELSE /\ nodes' = [n \in DOMAIN nodes \cup new |->
                        IF n \in new
                        THEN LET r == CHOOSE r \in o.ins : r.id = n
                             IN [parent |-> r.parent, level |-> r.level,
                                 deleted |-> r.deleted]
                        ELSE IF n \in o.del THEN mark_deleted(nodes[n])
                        ELSE nodes[n]]
          /\ versions' = versions \cup o.nv
  /\ op' = Settle(p, end_transaction(o))
  /\ UNCHANGED nreq

Next ==
  \E p \in Procs :
    \/ GetCommentPost(p)
    \/ GetCommentForm(p)
    \/ GetCommentDelete(p)
    \/ PermissionCheck(p)
    \/ DepthCheck(p)
    \/ AddComment(p)
    \/ LockComment(p)
    \/ FreshnessCheck(p)
    \/ CreateNewVersion(p)
    \/ GetTemplate(p)
    \/ DeleteMark(p)
    \/ AtomicExit(p)

Spec == Init /\ [][Next]_vars

\* ---- properties -------------------------------------------------------------
VersionsOf(c) == {v \in versions : v.comment = c}

\* Worker p takes the step that ends its transaction.
Exits(p) == op[p].pc = "exit" /\ op'[p].pc = "idle"

\* A committed version that post_comment made from the version i.
WonFrom(i) == \E v \in versions : v.via = "post" /\ v.prev = i

Clean(x) == x.err \in {"none", "ConcurrentEditConflict", "StaleEdit"}

\* Two post_comment edits of one node that ran concurrently with each other
\* and with no other request, each submitted against the latest version, and
\* neither refused for a reason other than the concurrency guard; o is the
\* one that ends last.
PairCase(o) ==
  /\ IsEdit(o) /\ o.pc = "exit" /\ o.ov = 1
  /\ o.mate.kind = "post" /\ o.mate.ov = 1
  /\ o.fresh0 /\ o.mate.fresh0
  /\ Clean(o) /\ Clean(o.mate)

C3_StaleEditRefused ==
  /\ [](\A p \in Procs :
          LET o == op[p] IN
          (o.kind = "post" /\ o.prev # NoVersion /\ o.seen # NoVersion
             /\ o.seen # o.prev)
            => /\ o.pc = "exit" /\ o.err = "StaleEdit"
               /\ o.rollback /\ o.nv = {})
  /\ [][\A p \in Procs :
          (Exits(p) /\ op[p].err = "StaleEdit") => versions' = versions]_vars

C3_Witness ==
  \E p \in Procs :
    /\ op[p].pc = "exit" /\ op[p].err = "StaleEdit"
    /\ Cardinality(VersionsOf(op[p].comment)) = 2

\* C4: a delete_comment that succeeds leaves the node and every descendant
\* it had when it ran with deleted = TRUE.
C4_DeleteMarksAllDescendants ==
  [][\A p \in Procs :
       (Exits(p) /\ op[p].kind = "delete" /\ op[p].resp = "ok")
         => \A d \in {op[p].comment} \cup op[p].descAt : nodes'[d].deleted]_vars

\* C5: a post_comment or delete_comment that fails leaves the committed
\* nodes, deleted flags and versions as they were: its writes stay inside
\* the transaction until it ends and are discarded when it ends in failure.
C5_FailureIsAtomic ==
  /\ [](\A p \in Procs :
          (op[p].kind \in {"post", "delete"})
            => /\ {r.id : r \in op[p].ins} \cap DOMAIN nodes = {}
               /\ op[p].nv \cap versions = {})
  /\ [][\A p \in Procs :
          (op[p].kind \in {"post", "delete"} /\ op'[p].pc # op[p].pc
             /\ ~(Exits(p) /\ op[p].resp = "ok"))
            => (nodes' = nodes /\ versions' = versions)]_vars

C5_Witness ==
  \E p \in Procs :
    /\ op[p].kind = "post" /\ op[p].adding /\ op[p].pc = "exit"
    /\ op[p].err = "ValidationError" /\ op[p].ins # {}

C7_DepthCheckedBeforeInsert ==
  \A p \in Procs :
    LET o == op[p] IN
    (o.kind \in {"post", "form"} /\ o.adding
       /\ nodes[o.parent].level >= max_depth(get_root(o.parent)))
      => /\ o.pc \in {"perm", "depth", "exit"}
         /\ o.comment = NoNode /\ o.ins = {} /\ o.nv = {}
         /\ o.pc = "exit" => (o.rollback
                               /\ o.err \in {"PermissionDenied", "DepthExceeded"})

C7_Witness ==
  \E p \in Procs :
    /\ op[p].kind = "post" /\ op[p].adding /\ op[p].pc = "exit"
    /\ op[p].err = "DepthExceeded"

\* C8: an edit that commits adds exactly its one version, keeps every
\* version there was, and right after the commit its version is latest(node).
C8_AppendOnlyLatest ==
  [][\A p \in Procs :
       (Exits(p) /\ IsEdit(op[p]) /\ op[p].resp = "ok")
         => /\ versions \subseteq versions'
            /\ versions' \ versions = op[p].nv
            /\ Cardinality(op[p].nv) = 1
            /\ VersionIds(op[p].nv) =
                 {MaxId(VersionIds({v \in versions' : v.comment = op[p].comment}))}]_vars

\* C9: every failure of post_comment and delete_comment is answered with a
\* structured ok False response; none leaves the view as an exception.
C9_FailuresAreStructured ==
  \A p \in Procs :
    (op[p].kind \in {"post", "delete"} /\ op[p].pc = "exit" /\ op[p].resp # "ok")
      => op[p].resp = "fail"

C11_LockLivesOneOperation ==
  /\ [](\A p \in Procs :
          op[p].locked
            => /\ InFlight(p) /\ op[p].kind = "post"
               /\ op[p].pc \in {"fresh", "save", "template", "exit"})
  /\ [][\A p \in Procs :
          /\ Exits(p) => ~op'[p].locked
          /\ (op[p].pc = "lock" /\ op'[p].err = "ConcurrentEditConflict")
               => \E q \in Procs \ {p} :
                    /\ InFlight(q) /\ op[q].kind = "post" /\ op[q].locked
                    /\ op[q].comment = op[p].comment]_vars

\* An edit holds the lock of a node that an earlier, finished edit had locked.
C11_Witness ==
  \E p \in Procs :
    /\ IsEdit(op[p]) /\ op[p].locked
    /\ \E v \in versions :
         v.comment = op[p].comment /\ v.via = "post" /\ v.prev # NoVersion

\* C12: a committed node is never removed and a committed deleted = TRUE is
\* never taken back, by any step of any request.
C12_DeletedIsMonotonic ==
  [][/\ DOMAIN nodes \subseteq DOMAIN nodes'
     /\ \A n \in DOMAIN nodes : nodes[n].deleted => nodes'[n].deleted]_vars

\* A create under a deleted node is about to commit.
C12_Witness ==
  \E p \in Procs :
    /\ op[p].kind = "post" /\ op[p].adding /\ op[p].pc = "exit"
    /\ op[p].resp = "ok" /\ nodes[op[p].parent].deleted

\* C13: a delete_comment of a node that was already deleted when the request
\* resolved it, and that answers ok, commits without changing any node, any
\* deleted flag or any version.
C13_DeleteIsIdempotent ==
  [][\A p \in Procs :
       (Exits(p) /\ op[p].kind = "delete" /\ op[p].resp = "ok"
          /\ op[p].wasDeleted)
         => (nodes' = nodes /\ versions' = versions)]_vars

\* C14: in every committed state every child of a node with deleted = TRUE
\* has deleted = TRUE.
C14_ChildrenOfDeletedAreDeleted ==
  \A n \in DOMAIN nodes \ {Root} :
    nodes[nodes[n].parent].deleted => nodes[n].deleted

\* The event of a post_comment that answers ok: one event, sent after the
\* version was saved, post for a new node and edit for an existing one.
EventMatches(o) ==
  /\ o.sent \in {"post", "edit"} /\ Cardinality(o.nv) = 1
  /\ o.sent = "post" <=> o.ins # {}
  /\ o.sent = "edit" <=> (o.ins = {} /\ o.comment \in DOMAIN nodes)

\* C15: a post_comment that succeeds has sent exactly the event that matches
\* what it persists, and a post_comment that fails has sent no event.
C15_EventsMatchPersisted ==
  \A p \in Procs :
    LET o == op[p] IN
    (o.kind = "post" /\ o.pc = "exit")
      => /\ o.resp = "ok" => EventMatches(o)
         /\ o.resp # "ok" => o.sent = "none"

\* C16: delete_comment marks rows only after it has sent pre_delete, and a
\* delete whose pre_delete receiver raised marks nothing, is rolled back and
\* answered ok False: its end changes no deleted flag.
C16_PreDeleteVeto ==
  /\ [](\A p \in Procs :
          LET o == op[p] IN
          o.kind = "delete"
            => /\ o.del # {} => o.sent = "pre_delete"
               /\ o.raised => /\ o.pc = "exit" /\ o.resp = "fail"
                              /\ o.rollback /\ o.del = {})
  /\ [][\A p \in Procs :
          (Exits(p) /\ op[p].kind = "delete" /\ op[p].raised)
            => nodes' = nodes]_vars

\* A delete of a node that is not deleted has been vetoed by a receiver.
C16_Witness ==
  \E p \in Procs :
    /\ op[p].kind = "delete" /\ op[p].pc = "exit" /\ op[p].raised
    /\ op[p].sent = "pre_delete" /\ ~nodes[op[p].comment].deleted

\* C17: a step of post_comment or post_comment_form that writes a version
\* of an existing node is taken by a request that holds the lock of the node
\* and has found its previousVersion to be the latest version under it.
C17_VersionsOnlyUnderLock ==
  [][\A p \in Procs :
       (op[p].pc = "save" /\ ~op[p].adding
          /\ (versions' # versions \/ op'[p].nv # {}))
         => (op[p].locked /\ op[p].seen = op[p].prev)]_vars

\* A request that has inserted node n and has not yet come to its version.
BeingCreated(n) ==
  \E p \in Procs : InFlight(p) /\ op[p].adding /\ op[p].comment = n

\* C18: every committed node but the root, once the request that created it
\* is over, has at least one committed version.
C18_EveryNodeHasVersion ==
  \A n \in DOMAIN nodes \ {Root} : ~BeingCreated(n) => VersionsOf(n) # {}

\* The writes a post_comment has made so far inside its transaction.
Wrote(o) == o.ins # {} \/ o.nv # {}

\* C19 as stated: post_comment writes no node and no version before the
\* permission check and the depth check have passed, nor before it holds the
\* lock and has passed the freshness check; it locks only when the target
\* is an existing node; and it sends its event after the version is saved.
C19_StepOrder ==
  \A p \in Procs :
    LET o == op[p] IN
    o.kind = "post"
      => /\ Wrote(o) => o.pc \notin {"perm", "depth"}
         /\ Wrote(o) => (o.locked /\ o.pc \in {"save", "template", "exit"})
         /\ o.locked => ~o.adding
         /\ o.sent # "none" => o.nv # {}

\* The steps of post_comment in the order of the code; a step that fails
\* goes to the exit of the transaction.
StepOrder ==
  {<<"idle", "perm">>, <<"perm", "depth">>, <<"depth", "add">>,
   <<"depth", "lock">>, <<"add", "lock">>, <<"lock", "fresh">>,
   <<"fresh", "save">>, <<"save", "template">>, <<"template", "exit">>,
   <<"exit", "idle">>}
  \cup {<<x, "exit">> : x \in {"idle", "perm", "depth", "lock", "fresh", "save"}}

\* C19 as the code has it: the steps of post_comment come in the order
\* resolve, permission check, depth check, insert of a new node, lock,
\* freshness check, version write, event, response; nothing is written
\* before the permission and depth checks have passed, no version is written
\* before the lock is held and the freshness check has passed, and the lock
\* is taken for every target, the node just inserted included.
C19_StepOrderAsCoded ==
  /\ [](\A p \in Procs :
          LET o == op[p] IN
          o.kind = "post"
            => /\ Wrote(o) => o.pc \notin {"perm", "depth"}
               /\ o.ins # {} => o.pc \in {"lock", "fresh", "save", "template", "exit"}
               /\ o.nv # {} => (o.locked /\ o.pc \in {"template", "exit"}
                                /\ o.seen = o.prev)
               /\ o.pc \in {"fresh", "save", "template"} => o.locked
               /\ o.sent # "none" => o.nv # {})
  /\ [][\A p \in Procs :
          (op'[p].kind = "post" \/ op[p].kind = "post")
            => /\ op'[p].pc # op[p].pc => <<op[p].pc, op'[p].pc>> \in StepOrder
               /\ (op[p].pc = "depth" /\ op'[p].pc \in {"add", "lock"})
                    => /\ ~is_past_max_depth(op[p])
                       /\ op'[p].pc = "add" <=> op[p].adding]_vars

\* A create that holds the lock of the node it inserted is about to commit.
C19_Witness ==
  \E p \in Procs :
    /\ op[p].kind = "post" /\ op[p].adding /\ op[p].locked
    /\ op[p].ins # {} /\ op[p].nv # {} /\ op[p].pc = "exit" /\ op[p].resp = "ok"

\* C20: a request that edits an existing node never ends with DepthExceeded,
\* at whatever level the node is; an edit of a node at level max_depth gets
\* past the depth check.
C20_EditNeverDepthExceeded ==
  \A p \in Procs :
    LET o == op[p] IN
    (o.kind \in {"post", "form"} /\ ~o.adding /\ o.comment # NoNode)
      => /\ o.err # "DepthExceeded"
         /\ ~is_past_max_depth(o)

\* An edit of a node at level max_depth is about to commit.
C20_Witness ==
  \E p \in Procs :
    /\ IsEdit(op[p]) /\ op[p].pc = "exit" /\ op[p].resp = "ok"
    /\ nodes[op[p].comment].level = MaxDepth

====
